---- MODULE Spec2Model ----
(***************************************************************************)
(* A model of the Firebase driver of src/src/firebase.js.                  *)
(*                                                                         *)
(* Spec      the ChangeDispatcher (timeDriver's subscription, lines 59-91) *)
(*           together with the error channel errors$ (line 56) and the     *)
(*           subscribers of get("$lastError").                              *)
(*                                                                         *)
(* SpecPath  the accessors createChild builds (lines 120-174): child, get  *)
(*           and ref, with trimPath (line 47) computed on characters.      *)
(* SpecResolve  the streams get returns for $user and $lastError (lines    *)
(*           131-145): what each subscriber receives per emitted value.    *)
(*                                                                         *)
(* SpecBridge  the bridges from store callbacks to streams (observe,       *)
(*           getValue, authToObservable, lines 11-45) and uid$ (line 95):  *)
(*           subscriptions, the callbacks they register on the store and   *)
(*           take back, and what each subscriber receives.                 *)
(*                                                                         *)
(* Strings that the code slices, splits or matches against a regular       *)
(* expression are sequences of one-character strings, so that slice,       *)
(* split and replace are computed the way JavaScript computes them.        *)
(***************************************************************************)
EXTENDS Integers, Sequences, FiniteSets, TLC

\* ------------------------------------------------------------------ bounds
\* Snapshots emitted on source$ in one behaviour.
MaxSnapshots == 2
\* Nesting of source$.onNext calls: 1 is a top-level emission, 2 an emission
\* made by the producer from inside a store write or an authentication call.
MaxDepth == 2
\* Subscribers of get("$lastError").
NumErrSubs == 1

\* Subscriptions made to the streams the driver hands out.
MaxBridgeSubs == 2
\* Payloads the store and the error channel hand to callbacks in one
\* behaviour.
MaxDeliveries == 2

\* Characters of a subPath argument drawn from the alphabet.
MaxSubLen == 2
\* Navigation steps (child calls) from the root accessor.
MaxChain == 2
\* Subscriptions to streams of reserved locations.
MaxResolveSubs == 1
\* Values emitted by the streams behind the reserved locations.
MaxEmits == 2

\* ----------------------------------------------------------------- strings
Min(a, b) == IF a < b THEN a ELSE b

\* String.prototype.slice(from, to) for 0 <= from <= to (0-based, to excluded).
Slice(s, from, to) == SubSeq(s, from + 1, Min(to, Len(s)))

USER == <<"$", "u", "s", "e", "r">>
USER_NAME == <<"$", "u", "s", "e", "r", "/", "n">>
USERS == <<"$", "u", "s", "e", "r", "s">>
LAST_ERROR == <<"$", "l", "a", "s", "t", "E", "r", "r", "o", "r">>
LocA == <<"a">>
LocB == <<"b">>

\* ------------------------------------------------------------------- paths
Slash == <<"/">>

\* String.prototype.replace(/(^\/)|(\/$)/, ``): the regular expression has no
\* g flag, so only its first match is replaced: a leading slash if there is
\* one, otherwise a trailing slash if there is one.
StripOneSlash(s) ==
    IF s = <<>> THEN s
    ELSE IF s[1] = "/" THEN Tail(s)
    ELSE IF s[Len(s)] = "/" THEN SubSeq(s, 1, Len(s) - 1)
    ELSE s

\* String.prototype.replace(/\/\/+/, `/`): again only the first match, the
\* leftmost run of two or more slashes, becomes one slash.
CollapseFirstRun(s) ==
    LET starts == {k \in 1..(Len(s) - 1) : s[k] = "/" /\ s[k + 1] = "/"}
    IN  IF starts = {} THEN s
        ELSE LET k == CHOOSE m \in starts : \A j \in starts : m <= j
                 after == {m \in (k + 1)..Len(s) : s[m] /= "/"}
                 e == IF after = {} THEN Len(s) + 1
                      ELSE CHOOSE m \in after : \A j \in after : m <= j
             IN  SubSeq(s, 1, k) \o SubSeq(s, e, Len(s))

trimPath(location) == CollapseFirstRun(StripOneSlash(location))

\* `${path}/${childPath}`
Join(path, childPath) == path \o Slash \o childPath

\* String.prototype.split(`/`)
RECURSIVE Split(_)
Split(s) ==
    LET slashes == {k \in 1..Len(s) : s[k] = "/"}
    IN  IF slashes = {} THEN <<s>>
        ELSE LET k == CHOOSE m \in slashes : \A j \in slashes : m <= j
             IN  <<SubSeq(s, 1, k - 1)>> \o Split(SubSeq(s, k + 1, Len(s)))

NOPE == <<"$", "n">>

\* A table that answers auth$ for every name it does not know.
specialCaseListeners_Fallback(dir) ==
    IF dir = LAST_ERROR THEN "errors$" ELSE "auth$"

\* specialCaseListeners: the stream behind a reserved first segment.
specialCaseListeners(dir) ==
    IF dir = USER THEN "auth$"
    ELSE IF dir = LAST_ERROR THEN "errors$"
    ELSE "undefined"

\* getFbChild(baseRef, location): the store root itself for the empty
\* location, baseRef.child(location) otherwise.
getFbChild(location) ==
    IF location = <<>>
    THEN [handle |-> "root", childCalls |-> <<>>]
    ELSE [handle |-> "child", childCalls |-> <<location>>]

NoRef == [handle |-> "none", childCalls |-> <<>>]

\* get(childPath) on the accessor bound to path: the location it computes
\* and what it returns or throws.
GetResult(path, childPath) ==
    LET location == trimPath(Join(path, childPath))
    IN  IF location = <<>> \/ location[1] /= "$"
        THEN [location |-> location, kind |-> "store", ref |-> getFbChild(location),
              dir |-> <<>>, parts |-> <<>>, stream |-> "value"]
        ELSE LET split == Split(location)
                 dir == Head(split)
                 stream == specialCaseListeners(dir)
             IN  IF stream = "undefined"
                 THEN [location |-> location, kind |-> "throw", ref |-> NoRef,
                       dir |-> dir, parts |-> Tail(split), stream |-> stream]
                 ELSE [location |-> location, kind |-> "special", ref |-> NoRef,
                       dir |-> dir, parts |-> Tail(split), stream |-> stream]

\* ------------------------------------------------------- JavaScript values
\* JavaScript values: a primitive, named by its literal, or an object with
\* its own properties. Property names are path segments.
Prim(literal) == [prim |-> literal, fields |-> <<>>]
Obj(fields) == [prim |-> "object", fields |-> fields]
JsNull == Prim("null")
JsUndefined == Prim("undefined")
EmptyObject == Obj(<<>>)
SegN == <<"n">>
SegU == <<"u">>

\* ToBoolean
Truthy(v) == v.prim \notin {"null", "undefined", "0", "false", "''", "NaN"}

\* (o || {})[k]: an own property of an object; the primitives and property
\* names used here have no property of their own or of their prototype.
GetProp(o, k) ==
    LET base == IF Truthy(o) THEN o ELSE EmptyObject
    IN  IF k \in DOMAIN base.fields THEN base.fields[k] ELSE JsUndefined

\* parts.reduce((o, k) => (o || {})[k], object)
RECURSIVE Reduce(_, _)
Reduce(parts, o) ==
    IF parts = <<>> THEN o ELSE Reduce(Tail(parts), GetProp(o, Head(parts)))

\* object => parts.reduce(...) || null
Extract(parts, object) ==
    LET r == Reduce(parts, object)
    IN  IF Truthy(r) THEN r ELSE JsNull

\* ------------------------------------------------------------- state trees
\* A StateTree in flattened form: a function from the locations of its
\* leaves (an OverwriteDirective is a leaf) to the value to install there.
EmptyTree == [l \in {} |-> "none"]

\* The order in which the diff collaborator lists locations.
LocOrder == <<LocA, USER_NAME, USERS, USER, LAST_ERROR, LocB>>

\* getChanges(prevState, nextState): one ChangeOp per location of nextState
\* whose value differs from prevState's, in LocOrder.
getChanges(prevState, nextState) ==
    LET changed(l) == /\ l \in DOMAIN nextState
                      /\ (l \notin DOMAIN prevState \/ prevState[l] /= nextState[l])
        locs == SelectSeq(LocOrder, changed)
    IN  [k \in 1..Len(locs) |-> [location |-> locs[k], value |-> nextState[locs[k]]]]

\* The snapshots the producer may emit.
Snapshots ==
    { (LocA :> "v1"),
      (LocA :> "v1") @@ (LocB :> "v2"),
      (LocA :> "v2") @@ (USER :> "password") @@ (LocB :> "v2"),
      (USER :> "logout"),
      (USER :> "bogus") @@ (LocB :> "v1"),
      (LocA :> "v2") @@ (USER_NAME :> "v1") @@ (LocB :> "v1"),
      (USERS :> "v1"),
      (LAST_ERROR :> "v1") @@ (LocA :> "v1") }

\* handleAuthentication(value): the login descriptor's store operation and its
\* arguments; an unrecognized descriptor makes it throw.
handleAuthentication(value) ==
    CASE value = "password" -> [ok |-> TRUE, method |-> "authWithPassword", args |-> <<value>>]
      [] value = "logout"   -> [ok |-> TRUE, method |-> "unauth", args |-> <<>>]
      [] OTHER              -> [ok |-> FALSE, method |-> "none", args |-> <<>>]

\* What method.apply(baseRef, args) may return: a promise that resolves or
\* rejects later, or no promise at all.
AuthResults(method) ==
    IF method = "authWithPassword" THEN {"resolves", "rejects"} ELSE {"none"}

\* ------------------------------------------------------------------- state
VARIABLES
    source,       \* the snapshots emitted on source$ so far
    subscribed,   \* whether the dispatcher's subscription to source$ is live
    previous,     \* pairwise's previous element
    stack,        \* the onNext calls of the subscription that are running
    diffCalls,    \* the calls of getChanges made, <<prevState, nextState>>
    visited,      \* the ChangeOps the forEach callback was called with
    applied,      \* the ChangeOps whose application completed
    effects,      \* the store sets and authentication calls made
    authCalls,    \* the calls of handleAuthentication made
    thrown,       \* the errors thrown synchronously while applying
    pending,      \* rejected promises whose catch callback has not run yet
    errors,       \* the values pushed onto errors$
    errSubs       \* the subscribers of get("$lastError")

dvars == <<source, subscribed, previous, stack, diffCalls, visited, applied, effects,
           authCalls, thrown, pending, errors, errSubs>>

VARIABLES
    trail,        \* the accessors made by child, from the root accessor on
    lastGet,      \* what the last get on the newest accessor did
    pathError,    \* the error the last child or get threw, "none" if none
    lastCall      \* the last call made on an accessor and its argument

pvars == <<trail, lastGet, pathError, lastCall>>

VARIABLES
    rsubs,        \* the subscriptions to streams returned by get("$...")
    emitted       \* the values the backing streams have emitted

rvars == <<rsubs, emitted>>

\* The bridges from the store's callbacks to streams (observe, getValue,
\* authToObservable), seen from the store and from the subscribers.
VARIABLES
    bsubs,        \* the subscriptions made to streams the driver handed out
    registry,     \* the callbacks registered on the store right now
    storeCalls    \* on, off, onAuth and offAuth calls made on the store, in order

bvars == <<bsubs, registry, storeCalls>>

vars == <<dvars, pvars, rvars, bvars>>

Top == stack[Len(stack)]
Pop(s) == SubSeq(s, 1, Len(s) - 1)
SetTop(s, f) == [s EXCEPT ![Len(s)] = f]

\* The state after timeDriver(source$) returns: startWith({}) has delivered
\* the empty tree to pairwise, nothing has been emitted by the producer.
DispatcherInit ==
    /\ source = <<>>
    /\ subscribed = TRUE
    /\ previous = EmptyTree
    /\ stack = <<>>
    /\ diffCalls = <<>>
    /\ visited = <<>>
    /\ applied = <<>>
    /\ effects = <<>>
    /\ authCalls = <<>>
    /\ thrown = <<>>
    /\ pending = {}
    /\ errors = <<>>
    /\ errSubs = [k \in 1..NumErrSubs |-> [state |-> "new", received |-> <<>>]]

\* pairwise's onNext(x) up to the call of the downstream observer: map calls
\* getChanges(previous, x) and the subscriber starts on the result. All of
\* it runs synchronously inside the producer's onNext. Rx's pairwise assigns
\* previous only after the downstream call returns (Return).
Deliver(x) ==
    IF subscribed
    THEN /\ diffCalls' = Append(diffCalls, <<previous, x>>)
         /\ stack' = Append(stack, [batch |-> Len(diffCalls) + 1,
                                    changes |-> getChanges(previous, x),
                                    i |-> 1,
                                    x |-> x])
    ELSE UNCHANGED <<diffCalls, stack>>

\* The producer emits a snapshot while no dispatcher code is running.
Emit(x) ==
    /\ stack = <<>>
    /\ Len(source) < MaxSnapshots
    /\ source' = Append(source, x)
    /\ Deliver(x)
    /\ UNCHANGED <<subscribed, previous, visited, applied, effects, authCalls,
                   thrown, pending, errors, errSubs, pvars, rvars, bvars>>

\* The producer emits a snapshot from inside the store write or the
\* authentication call of the ChangeOp that the running batch just issued.
ReentrantEmit(x) ==
    /\ stack /= <<>>
    /\ Top.i > 1
    /\ Len(stack) < MaxDepth
    /\ Len(source) < MaxSnapshots
    /\ source' = Append(source, x)
    /\ Deliver(x)
    /\ UNCHANGED <<subscribed, previous, visited, applied, effects, authCalls,
                   thrown, pending, errors, errSubs, pvars, rvars, bvars>>

\* A comparison with the whole location where the code compares a prefix.
IsUserLocation_Exact(location) == location = USER

\* location.slice(0, 5) === `$user`
IsUserLocation(location) == Slice(location, 0, 5) = USER

\* A forEach callback that catches the exception of a ChangeOp and goes on
\* with the next one.
Throw_CaughtPerOp(op, error) ==
    /\ thrown' = Append(thrown, [op |-> op, error |-> error])
    /\ stack' = SetTop(stack, [Top EXCEPT !.i = Top.i + 1])
    /\ UNCHANGED <<subscribed, applied, effects, pending>>

\* An exception leaves the subscriber's onNext: Rx disposes the subscription
\* of an observer whose onNext throws and rethrows, so the exception travels
\* up the running onNext call. A producer that
\* emitted from inside a store callback either lets it pass (all running
\* batches are abandoned) or catches it (the batch below goes on).
Throw(op, error) ==
    /\ thrown' = Append(thrown, [op |-> op, error |-> error])
    /\ subscribed' = FALSE
    /\ stack' \in {Pop(stack), <<>>}
    /\ UNCHANGED <<applied, effects, pending>>

\* A set on the store root where the code sets the child at location.
StoreSet_AtRoot(op, location, value) ==
    [op |-> op, kind |-> "set", location |-> <<>>, value |-> value,
     method |-> "none", args |-> <<>>, result |-> "none"]

\* baseRef.child(location).set(value)
StoreSet(op, location, value) ==
    [op |-> op, kind |-> "set", location |-> location, value |-> value,
     method |-> "none", args |-> <<>>, result |-> "none"]

\* A call of the operation without the arguments handleAuthentication gave.
AuthCall_NoArgs(op, method, args, result) ==
    [op |-> op, kind |-> "auth", location |-> <<>>, value |-> "none",
     method |-> method, args |-> <<>>, result |-> result]

\* method.apply(baseRef, args)
AuthCall(op, method, args, result) ==
    [op |-> op, kind |-> "auth", location |-> <<>>, value |-> "none",
     method |-> method, args |-> args, result |-> result]

\* One run of the forEach callback (lines 68-90) on the next ChangeOp of the
\* running batch.
ApplyChange ==
    /\ stack /= <<>>
    /\ Top.i <= Len(Top.changes)
    /\ LET f == Top
           c == f.changes[f.i]
           op == <<f.batch, f.i>>
           done == SetTop(stack, [f EXCEPT !.i = f.i + 1])
           rec == [op |-> op, location |-> c.location, value |-> c.value]
       IN  /\ visited' = Append(visited, rec)
           /\ IF IsUserLocation(c.location)
              THEN IF c.location /= USER
                   THEN /\ Throw(op, "ProtocolViolation")
                        /\ UNCHANGED authCalls
                   ELSE LET h == handleAuthentication(c.value)
                        IN  /\ authCalls' = Append(authCalls, [op |-> op, value |-> c.value])
                            /\ IF ~h.ok
                               THEN Throw(op, "UnsupportedAuthMethod")
                               ELSE \E result \in AuthResults(h.method) :
                                      /\ effects' = Append(effects, AuthCall(op, h.method, h.args, result))
                                      /\ pending' = IF result = "rejects"
                                                    THEN pending \cup {op}
                                                    ELSE pending
                                      /\ applied' = Append(applied, rec)
                                      /\ stack' = done
                                      /\ UNCHANGED <<thrown, subscribed>>
              ELSE /\ effects' = Append(effects, StoreSet(op, c.location, c.value))
                   /\ applied' = Append(applied, rec)
                   /\ stack' = done
                   /\ UNCHANGED <<thrown, subscribed, pending, authCalls>>
    /\ UNCHANGED <<source, previous, diffCalls, errors, errSubs, pvars, rvars, bvars>>

\* forEach is done: the subscriber's onNext returns and pairwise stores x.
Return ==
    /\ stack /= <<>>
    /\ Top.i > Len(Top.changes)
    /\ previous' = Top.x
    /\ stack' = Pop(stack)
    /\ UNCHANGED <<source, subscribed, diffCalls, visited, applied, effects,
                   authCalls, thrown, pending, errors, errSubs, pvars, rvars, bvars>>

\* The error a rejected authentication promise carries.
AuthError(op) == [prim |-> "object", fields |-> (SegN :> Prim("'AUTH_FAILED'")), op |-> op]

\* What a subscriber of get("$lastError") receives for a value of errors$:
\* the stream get returned maps it through the parts of its location.
LastErrorValue(error) == Extract(GetResult(<<>>, LAST_ERROR).parts, error)

\* errors$.onNext(error): the Subject hands it to its current observers.
Push(error) ==
    /\ errors' = Append(errors, error)
    /\ errSubs' = [k \in DOMAIN errSubs |->
                     IF errSubs[k].state = "active"
                     THEN [errSubs[k] EXCEPT !.received = Append(@, LastErrorValue(error))]
                     ELSE errSubs[k]]

\* A catch callback that swallows the error where the code pushes it.
Rejected_Swallowed(op) ==
    /\ stack = <<>>
    /\ op \in pending
    /\ pending' = pending \ {op}
    /\ UNCHANGED <<source, subscribed, previous, stack, diffCalls, visited,
                   applied, effects, authCalls, thrown, errors, errSubs, pvars, rvars, bvars>>

\* The catch callback of a rejected promise runs (lines 82-84), as a job of
\* its own: no dispatcher code is running.
Rejected(op) ==
    /\ stack = <<>>
    /\ op \in pending
    /\ pending' = pending \ {op}
    /\ Push(AuthError(op))
    /\ UNCHANGED <<source, subscribed, previous, stack, diffCalls, visited,
                   applied, effects, authCalls, thrown, pvars, rvars, bvars>>

\* A subscription that starts with the last error pushed, as one to a
\* replaying subject would.
SubscribeErr_Replay(k) ==
    /\ stack = <<>>
    /\ errSubs[k].state = "new"
    /\ errSubs' = [errSubs EXCEPT ![k].state = "active",
                                  ![k].received =
                                      IF errors = <<>> THEN <<>>
                                      ELSE <<LastErrorValue(errors[Len(errors)])>>]
    /\ UNCHANGED <<source, subscribed, previous, stack, diffCalls, visited,
                   applied, effects, authCalls, thrown, pending, errors, pvars, rvars, bvars>>

\* A consumer subscribes to get("$lastError").
SubscribeErr(k) ==
    /\ stack = <<>>
    /\ errSubs[k].state = "new"
    /\ errSubs' = [errSubs EXCEPT ![k].state = "active"]
    /\ UNCHANGED <<source, subscribed, previous, stack, diffCalls, visited,
                   applied, effects, authCalls, thrown, pending, errors, pvars, rvars, bvars>>

\* and disposes its subscription.
DisposeErr(k) ==
    /\ stack = <<>>
    /\ errSubs[k].state = "active"
    /\ errSubs' = [errSubs EXCEPT ![k].state = "disposed"]
    /\ UNCHANGED <<source, subscribed, previous, stack, diffCalls, visited,
                   applied, effects, authCalls, thrown, pending, errors, pvars, rvars, bvars>>

\* --------------------------------------------------------------- accessors
\* The arguments callers pass: strings over a small alphabet, the reserved
\* locations, and values that are no strings.
Alphabet == {"/", "a"}
Strings(n) == UNION {[1..k -> Alphabet] : k \in 0..n}
A_B_C == <<"a", "/", "/", "b", "/", "/", "c">>
SubPaths == Strings(MaxSubLen) \cup {A_B_C, USER, USER_NAME, LAST_ERROR, NOPE}
StringArg(chars) == [type |-> "string", chars |-> chars]
Undefined == [type |-> "undefined", chars |-> <<>>]
\* null: typeof null is `object`, and a template string renders it as `null`.
NullArg == [type |-> "object", chars |-> <<"n", "u", "l", "l">>]
ChildArgs == {StringArg(c) : c \in SubPaths} \cup {Undefined, NullArg}

NoResult == [location |-> <<>>, kind |-> "none", ref |-> NoRef,
             dir |-> <<>>, parts |-> <<>>, stream |-> "none"]
NoGet == [arg |-> <<>>, result |-> NoResult]
NoCall == [op |-> "none", arg |-> Undefined]

\* The accessor the code is working with: the newest of the trail.
Current == trail[Len(trail)]

\* createChild(``), the accessor timeDriver returns.
PathInit ==
    /\ trail = <<[path |-> <<>>, arg |-> <<>>]>>
    /\ lastGet = NoGet
    /\ pathError = "none"
    /\ lastCall = NoCall

\* child(childPath) rejecting only a missing argument.
Child_OnlyMissingRejected(arg) ==
    /\ Len(trail) <= MaxChain
    /\ IF arg.type = "undefined"
       THEN /\ pathError' = "InvalidArgument"
            /\ UNCHANGED trail
       ELSE /\ pathError' = "none"
            /\ trail' = Append(trail, [path |-> trimPath(Join(Current.path, arg.chars)),
                                       arg |-> arg.chars])
    /\ lastGet' = NoGet
    /\ lastCall' = [op |-> "child", arg |-> arg]
    /\ UNCHANGED <<dvars, rvars, bvars>>

\* child(childPath) on the current accessor.
Child(arg) ==
    /\ Len(trail) <= MaxChain
    /\ IF arg.type /= "string"
       THEN /\ pathError' = "InvalidArgument"
            /\ UNCHANGED trail
       ELSE /\ pathError' = "none"
            /\ trail' = Append(trail, [path |-> trimPath(Join(Current.path, arg.chars)),
                                       arg |-> arg.chars])
    /\ lastGet' = NoGet
    /\ lastCall' = [op |-> "child", arg |-> arg]
    /\ UNCHANGED <<dvars, rvars, bvars>>

\* get(childPath) on the current accessor; a missing argument is ``.
Get(arg) ==
    /\ LET childPath == IF arg.type = "undefined" THEN <<>> ELSE arg.chars
           r == GetResult(Current.path, childPath)
       IN  /\ lastGet' = [arg |-> childPath, result |-> r]
           /\ pathError' = IF r.kind = "throw" THEN "UnknownReservedPath" ELSE "none"
    /\ lastCall' = [op |-> "get", arg |-> arg]
    /\ UNCHANGED <<trail, dvars, rvars, bvars>>

\* ref() on the current accessor.
Ref ==
    /\ lastGet' = [arg |-> <<>>,
                   result |-> [NoResult EXCEPT !.kind = "ref",
                                               !.location = Current.path,
                                               !.ref = getFbChild(Current.path)]]
    /\ pathError' = "none"
    /\ lastCall' = [op |-> "ref", arg |-> Undefined]
    /\ UNCHANGED <<trail, dvars, rvars, bvars>>

PathNext ==
    \/ \E arg \in ChildArgs : Child(arg)
    \/ \E arg \in ChildArgs : Get(arg)
    \/ Ref

\* ---------------------------------------------------------------- resolver
\* What auth$ emits: signed out, or an identity record; its fields may hold
\* any value.
AuthValues ==
    { JsNull,
      Obj(SegU :> Prim("'x'")),
      Obj(SegU :> Prim("'x'") @@ SegN :> Prim("0")),
      Obj(SegN :> Prim("false")),
      Obj(SegN :> Obj(SegN :> Prim("1"))),
      Obj(SegN :> Obj(SegN :> Prim("''"))) }

\* What errors$ emits: whatever a promise was rejected with.
ErrorValues ==
    { Obj(SegN :> Prim("1")),
      Prim("0"),
      Prim("1") }

StreamValues(stream) == IF stream = "auth$" THEN AuthValues ELSE ErrorValues

USER_N_N == <<"$", "u", "s", "e", "r", "/", "n", "/", "n">>
LAST_ERROR_N == <<"$", "l", "a", "s", "t", "E", "r", "r", "o", "r", "/", "n">>
ReservedSubPaths == {USER, USER_NAME, USER_N_N, LAST_ERROR, LAST_ERROR_N}

ResolveInit ==
    /\ rsubs = <<>>
    /\ emitted = <<>>

\* get(childPath) on the root accessor for a reserved location, and a
\* subscription to the stream it returns.
SubscribeReserved(childPath) ==
    /\ Len(rsubs) < MaxResolveSubs
    /\ LET r == GetResult(<<>>, childPath)
       IN  /\ r.kind = "special"
           /\ rsubs' = Append(rsubs, [stream |-> r.stream, parts |-> r.parts,
                                      since |-> Len(emitted), received |-> <<>>])
    /\ UNCHANGED <<emitted, dvars, pvars, bvars>>

\* The stream behind a reserved location emits: every subscription to a
\* stream mapped from it receives the extracted part.
EmitReserved(stream, value) ==
    /\ Len(emitted) < MaxEmits
    /\ emitted' = Append(emitted, [stream |-> stream, value |-> value])
    /\ rsubs' = [k \in DOMAIN rsubs |->
                   IF rsubs[k].stream = stream
                   THEN [rsubs[k] EXCEPT !.received = Append(@, Extract(rsubs[k].parts, value))]
                   ELSE rsubs[k]]
    /\ UNCHANGED <<dvars, pvars, bvars>>

ResolveNext ==
    \/ \E childPath \in ReservedSubPaths : SubscribeReserved(childPath)
    \/ \E stream \in {"auth$", "errors$"} : \E value \in StreamValues(stream) :
          EmitReserved(stream, value)

\* ------------------------------------------------------------------ bridges
\* Observable.create is lazy: its function runs once per subscription, and
\* what it returns runs once, when the subscription ends: on dispose, or
\* right after observer.onError, whichever is first. An observer that has
\* ended drops what it is handed.
SegUid == <<"u", "i", "d">>

\* The authentication states of the store: signed out, or an identity
\* record, which has a uid.
AuthStates ==
    { JsNull,
      Obj(SegUid :> Prim("'u1'") @@ SegN :> Prim("'n'")) }

\* The values a store location takes.
StoreValues == {Prim("1")}

\* What the store or the error channel hands to a callback.
Payload(kind, value) == [payload |-> kind, value |-> value]

\* accessor.uid$
UidStream == [NoResult EXCEPT !.kind = "uid", !.stream = "auth$"]

\* uid$ emitting the whole authentication state.
UidOf_WholeRecord(x) == x

\* x => x ? x.uid : null
UidOf(x) ==
    IF Truthy(x)
    THEN IF SegUid \in DOMAIN x.fields THEN x.fields[SegUid] ELSE JsUndefined
    ELSE JsNull

\* What the stream r hands its subscriber for a payload: getValue maps a
\* snapshot to x.val(), uid$ to the uid, the stream of a reserved location
\* to the part named by its location.
StreamMap(r, x) ==
    IF r.kind = "store" THEN x.value
    ELSE IF r.kind = "uid" THEN UidOf(x.value)
    ELSE Extract(r.parts, x.value)

\* The arguments of get used for subscriptions.
BridgeArgs ==
    {Undefined, StringArg(USER_NAME), StringArg(LAST_ERROR), StringArg(NOPE)}

BridgeInit ==
    /\ bsubs = <<>>
    /\ registry = {}
    /\ storeCalls = <<>>

\* A uid$ that listens to the store from the moment it is read.
Uid_Eager ==
    /\ lastGet' = [arg |-> <<>>, result |-> UidStream]
    /\ pathError' = "none"
    /\ lastCall' = [op |-> "uid$", arg |-> Undefined]
    /\ storeCalls' = Append(storeCalls, [api |-> "onAuth", target |-> getFbChild(<<>>),
                                         event |-> "auth", cb |-> 0])
    /\ registry' = registry \cup {[api |-> "onAuth", target |-> getFbChild(<<>>),
                                   event |-> "auth", cb |-> 0]}
    /\ UNCHANGED <<trail, bsubs, dvars, rvars>>

\* Reading uid$ off the current accessor.
Uid ==
    /\ lastGet' = [arg |-> <<>>, result |-> UidStream]
    /\ pathError' = "none"
    /\ lastCall' = [op |-> "uid$", arg |-> Undefined]
    /\ UNCHANGED <<trail, dvars, rvars, bvars>>

\* The registration a subscription to r makes on the store with callback cb.
Registration(r, cb) ==
    IF r.stream = "value"
    THEN [api |-> "on", target |-> r.ref, event |-> "value", cb |-> cb]
    ELSE [api |-> "onAuth", target |-> getFbChild(<<>>), event |-> "auth", cb |-> cb]

\* and the call that takes it back.
Deregistration(reg) ==
    [reg EXCEPT !.api = IF reg.api = "on" THEN "off" ELSE "offAuth"]

StoreBacked(r) == r.stream \in {"value", "auth$"}

\* A callback is invoked with payload x: observer.onNext(x) through map.
Invoke(sub, x) ==
    [sub EXCEPT !.delivered = Append(@, x),
                !.received = IF sub.state = "active"
                             THEN Append(@, StreamMap(sub.stream, x))
                             ELSE @]

\* A consumer subscribes to the stream the last get, or uid$, returned. For
\* a store location observe's function runs: ref.on(`value`, ...). For
\* auth$ authToObservable's runs: ref.onAuth(cb). errors$ is a Subject: it
\* keeps the observer itself.
Subscribe ==
    /\ Len(bsubs) < MaxBridgeSubs
    /\ lastGet.result.kind \in {"store", "special", "uid"}
    /\ LET r == lastGet.result
           reg == Registration(r, Len(bsubs) + 1)
           sub == [stream |-> r, state |-> "active", delivered |-> <<>>,
                   received |-> <<>>, failure |-> "none"]
       IN  IF StoreBacked(r)
           THEN /\ storeCalls' = Append(storeCalls, reg)
                /\ registry' = registry \cup {reg}
                /\ bsubs' = Append(bsubs, sub)
           ELSE /\ bsubs' = Append(bsubs, sub)
                /\ UNCHANGED <<storeCalls, registry>>
    /\ UNCHANGED <<dvars, pvars, rvars>>

\* The function observe and authToObservable return is called on every
\* dispose, ended subscription or not.
Dispose_EveryTime(k) ==
    /\ k \in DOMAIN bsubs
    /\ bsubs' = [bsubs EXCEPT ![k].state = IF @ = "active" THEN "disposed" ELSE @]
    /\ IF StoreBacked(bsubs[k].stream)
       THEN LET reg == Registration(bsubs[k].stream, k)
            IN  /\ storeCalls' = Append(storeCalls, Deregistration(reg))
                /\ registry' = registry \ {reg}
       ELSE UNCHANGED <<storeCalls, registry>>
    /\ UNCHANGED <<dvars, pvars, rvars>>

\* The consumer disposes subscription k: ref.off(event, unbind), or
\* ref.offAuth(cb), when it has not ended yet, nothing when it has.
Dispose(k) ==
    /\ k \in DOMAIN bsubs
    /\ IF bsubs[k].state = "active"
       THEN /\ bsubs' = [bsubs EXCEPT ![k].state = "disposed"]
            /\ IF StoreBacked(bsubs[k].stream)
               THEN LET reg == Registration(bsubs[k].stream, k)
                    IN  /\ storeCalls' = Append(storeCalls, Deregistration(reg))
                        /\ registry' = registry \ {reg}
               ELSE UNCHANGED <<storeCalls, registry>>
       ELSE UNCHANGED <<bsubs, storeCalls, registry>>
    /\ UNCHANGED <<dvars, pvars, rvars>>

\* The callbacks the store would call for a payload of the given api.
Listening(api, target) ==
    {k \in DOMAIN bsubs :
        \E reg \in registry : reg.cb = k /\ reg.api = api /\ reg.target = target}

\* The payloads handed to callbacks so far.
Deliveries ==
    LET sum[k \in 0..Len(bsubs)] ==
            IF k = 0 THEN 0 ELSE sum[k - 1] + Len(bsubs[k].delivered)
    IN  sum[Len(bsubs)]

Room(ks) == Deliveries + Cardinality(ks) <= MaxDeliveries

\* The store has a value for a location someone listens to: x => observer.onNext(x)
StoreEvent(target, value) ==
    /\ Listening("on", target) /= {}
    /\ Room(Listening("on", target))
    /\ bsubs' = [k \in DOMAIN bsubs |->
                   IF k \in Listening("on", target)
                   THEN Invoke(bsubs[k], Payload("snapshot", value))
                   ELSE bsubs[k]]
    /\ UNCHANGED <<registry, storeCalls, dvars, pvars, rvars>>

\* The store calls every onAuth callback with an authentication state.
AuthChange(auth) ==
    /\ Listening("onAuth", getFbChild(<<>>)) /= {}
    /\ Room(Listening("onAuth", getFbChild(<<>>)))
    /\ bsubs' = [k \in DOMAIN bsubs |->
                   IF k \in Listening("onAuth", getFbChild(<<>>))
                   THEN Invoke(bsubs[k], Payload("auth", auth))
                   ELSE bsubs[k]]
    /\ UNCHANGED <<registry, storeCalls, dvars, pvars, rvars>>

\* errors$.onNext(error) reaches the observers the Subject holds.
ErrorPush(error) ==
    LET ks == {k \in DOMAIN bsubs :
                  bsubs[k].stream.stream = "errors$" /\ bsubs[k].state = "active"}
    IN  /\ ks /= {}
        /\ Room(ks)
        /\ bsubs' = [k \in DOMAIN bsubs |->
                       IF k \in ks THEN Invoke(bsubs[k], Payload("error", error))
                       ELSE bsubs[k]]
        /\ UNCHANGED <<registry, storeCalls, dvars, pvars, rvars>>

\* A listener error that ends every subscription on the same location.
ListenerError_Shared(k) ==
    /\ k \in DOMAIN bsubs
    /\ bsubs[k].state = "active"
    /\ bsubs[k].stream.stream = "value"
    /\ LET ks == Listening("on", bsubs[k].stream.ref)
       IN  /\ bsubs' = [j \in DOMAIN bsubs |->
                          IF j \in ks
                          THEN [bsubs[j] EXCEPT !.state = "failed",
                                                !.failure = "PERMISSION_DENIED"]
                          ELSE bsubs[j]]
           /\ storeCalls' = Append(storeCalls,
                                   Deregistration(Registration(bsubs[k].stream, k)))
           /\ registry' = {reg \in registry : reg.cb \notin ks}
    /\ UNCHANGED <<dvars, pvars, rvars>>

\* The store cancels the listener of subscription k and calls its error
\* callback: err => observer.onError(err). The subscription ends with the
\* error, and ending it runs ref.off(event, unbind).
ListenerError(k) ==
    /\ k \in DOMAIN bsubs
    /\ bsubs[k].state = "active"
    /\ bsubs[k].stream.stream = "value"
    /\ LET reg == Registration(bsubs[k].stream, k)
       IN  /\ bsubs' = [bsubs EXCEPT ![k].state = "failed",
                                     ![k].failure = "PERMISSION_DENIED"]
           /\ storeCalls' = Append(storeCalls, Deregistration(reg))
           /\ registry' = registry \ {reg}
    /\ UNCHANGED <<dvars, pvars, rvars>>

BridgeNext ==
    \/ \E arg \in BridgeArgs : Get(arg)
    \/ Ref
    \/ Uid
    \/ Subscribe
    \/ \E k \in 1..MaxBridgeSubs : Dispose(k)
    \/ \E reg \in registry : \E value \in StoreValues : StoreEvent(reg.target, value)
    \/ \E auth \in AuthStates : AuthChange(auth)
    \/ ErrorPush(Obj(SegN :> Prim("1")))
    \/ \E k \in 1..MaxBridgeSubs : ListenerError(k)

Init == DispatcherInit /\ PathInit /\ ResolveInit /\ BridgeInit

Next ==
    \/ \E x \in Snapshots : Emit(x)
    \/ \E x \in Snapshots : ReentrantEmit(x)
    \/ ApplyChange
    \/ Return
    \/ \E op \in pending : Rejected(op)
    \/ \E k \in 1..NumErrSubs : SubscribeErr(k)
    \/ \E k \in 1..NumErrSubs : DisposeErr(k)

Spec == Init /\ [][Next]_vars

SpecPath == Init /\ [][PathNext]_vars

SpecResolve == Init /\ [][ResolveNext]_vars
SpecBridge == Init /\ [][BridgeNext]_vars

\* ------------------------------------------------------ claims: dispatcher
\* The ChangeOps getChanges returned to its b-th call.
Batch(b) == getChanges(diffCalls[b][1], diffCalls[b][2])

BeginsWith(s, prefix) ==
    Len(s) >= Len(prefix) /\ SubSeq(s, 1, Len(prefix)) = prefix

\* The records of log whose op is op.
Of(log, op) == {k \in 1..Len(log) : log[k].op = op}

OpBefore(p, q) == p[1] < q[1] \/ (p[1] = q[1] /\ p[2] < q[2])

ExpectedPair(k) == <<IF k = 1 THEN EmptyTree ELSE source[k - 1], source[k]>>

\* C1: while the dispatcher is subscribed, getChanges has been called once
\* per emitted snapshot, the k-th call with (s(k-1), s(k)) and s(0) the empty
\* tree, and the ChangeOps reach the forEach callback batch after batch, each
\* batch in the order getChanges returned it.
C1_DiffPerPairInOrder ==
    subscribed =>
        /\ Len(diffCalls) = Len(source)
        /\ \A k \in 1..Len(diffCalls) : diffCalls[k] = ExpectedPair(k)
        /\ \A j, k \in 1..Len(visited) :
              j < k => OpBefore(visited[j].op, visited[k].op)

\* C2: whenever a batch is running, every batch that started before it has
\* had all its ChangeOps applied.
C2_NoOverlap ==
    \A k \in 1..(Len(stack) - 1) : stack[k].i > Len(stack[k].changes)

\* C3: the side effects made are, one for one and in order, those of the
\* applied ChangeOps: a store set of the ChangeOp's value at its location
\* when the location does not begin with $user, an authentication call
\* otherwise; every applied ChangeOp is one getChanges returned, none is
\* applied twice, and once a batch is done without an error every ChangeOp
\* of it is applied.
C3_OneEffectPerChangeOp ==
    /\ Len(effects) = Len(applied)
    /\ \A k \in 1..Len(applied) :
          LET c == applied[k]
              e == effects[k]
          IN  /\ e.op = c.op
              /\ Cardinality(Of(applied, c.op)) = 1
              /\ c.op[1] \in 1..Len(diffCalls)
              /\ c.op[2] \in 1..Len(Batch(c.op[1]))
              /\ Batch(c.op[1])[c.op[2]] = [location |-> c.location, value |-> c.value]
              /\ IF BeginsWith(c.location, USER)
                 THEN e.kind = "auth"
                 ELSE e.kind = "set" /\ e.location = c.location /\ e.value = c.value
    /\ (stack = <<>> /\ thrown = <<>>) =>
          \A b \in 1..Len(diffCalls) : \A i \in 1..Len(Batch(b)) :
              Cardinality(Of(applied, <<b, i>>)) = 1

\* A batch with a store set at b and an authentication call has been applied.
C3_Witness ==
    /\ stack = <<>>
    /\ \E k \in 1..Len(effects) : effects[k].kind = "set" /\ effects[k].location = LocB
    /\ \E k \in 1..Len(effects) : effects[k].kind = "auth"

\* C4: a ChangeOp at exactly $user causes no store set; handleAuthentication
\* is called with its value exactly once, and when it returns an operation,
\* that operation is invoked exactly once with the returned arguments.
C4_UserGoesToAuthDispatch ==
    /\ \A k \in 1..Len(effects) : effects[k].kind = "set" => effects[k].location /= USER
    /\ \A k \in 1..Len(visited) :
          LET c == visited[k]
              h == handleAuthentication(c.value)
              calls == Of(authCalls, c.op)
              made == Of(effects, c.op)
          IN  c.location = USER =>
                /\ Cardinality(calls) = 1
                /\ \A j \in calls : authCalls[j].value = c.value
                /\ Cardinality(made) = (IF h.ok THEN 1 ELSE 0)
                /\ \A j \in made : /\ effects[j].kind = "auth"
                                   /\ effects[j].method = h.method
                                   /\ effects[j].args = h.args
    /\ \A k \in 1..Len(authCalls) :
          \E j \in Of(visited, authCalls[k].op) : visited[j].location = USER

\* The operation handleAuthentication returned for a password login has been
\* invoked with its arguments.
C4_Witness ==
    \E k \in 1..Len(effects) :
        /\ effects[k].kind = "auth"
        /\ effects[k].method = "authWithPassword"
        /\ effects[k].args = <<"password">>

\* C5: a ChangeOp whose location begins with $user and is not $user throws
\* ProtocolViolation, and no store set, no handleAuthentication call and no
\* authentication call is made for it.
C5_DeepUserWriteRejected ==
    \A k \in 1..Len(visited) :
        LET c == visited[k]
        IN  (BeginsWith(c.location, USER) /\ c.location /= USER) =>
              /\ \E j \in Of(thrown, c.op) : thrown[j].error = "ProtocolViolation"
              /\ Of(effects, c.op) = {}
              /\ Of(authCalls, c.op) = {}
              /\ Of(applied, c.op) = {}

\* ChangeOps at $user/n and at $users have reached the forEach callback, after
\* a side effect of an earlier ChangeOp.
C5_Witness ==
    /\ \E k \in 1..Len(visited) : visited[k].location = USER_NAME
    /\ \E k \in 1..Len(visited) : visited[k].location = USERS
    /\ effects /= <<>>

\* An authentication call whose promise rejects throws nothing; once its
\* catch callback has run its error is on errors$ exactly once, and nothing
\* else is; the dispatcher is subscribed as long as nothing was thrown.
C6_Inv ==
    /\ \A k \in 1..Len(effects) :
          LET e == effects[k]
              n == Cardinality({j \in 1..Len(errors) : errors[j] = AuthError(e.op)})
          IN  /\ e.result = "rejects" => Of(thrown, e.op) = {}
              /\ n = (IF e.result = "rejects" /\ e.op \notin pending THEN 1 ELSE 0)
    /\ \A j \in 1..Len(errors) :
          \E k \in 1..Len(effects) : errors[j] = AuthError(effects[k].op)
    /\ thrown = <<>> => subscribed

\* A push onto errors$ reaches every current subscriber of get("$lastError")
\* and leaves the dispatcher as it was.
C6_Step ==
    errors' /= errors =>
        /\ Len(errors') = Len(errors) + 1
        /\ \A k \in DOMAIN errSubs :
              errSubs[k].state = "active" =>
                  errSubs'[k].received = Append(errSubs[k].received, errors'[Len(errors')])
        /\ UNCHANGED <<subscribed, previous, stack, thrown>>

\* C6: an asynchronous authentication failure is not thrown, is pushed onto
\* errors$ exactly once, reaches every current subscriber of
\* get("$lastError"), and leaves the dispatcher running.
C6_AsyncFailureToErrorChannel == []C6_Inv /\ [][C6_Step]_vars

\* A failure was pushed and received, the ChangeOp after the failed one and
\* a later snapshot's ChangeOps were applied.
C6_Witness ==
    /\ errors /= <<>>
    /\ \E k \in DOMAIN errSubs : errSubs[k].received /= <<>>
    /\ LET op == errors[1].op
       IN  /\ Of(applied, <<op[1], op[2] + 1>>) /= {}
           /\ Len(applied) > 0
           /\ applied[Len(applied)].op[1] > op[1]
           /\ Len(source) > op[1]

\* String.prototype.split(`/`)[0]
FirstSegment(s) ==
    LET slashes == {k \in 1..Len(s) : s[k] = "/"}
    IN  IF slashes = {} THEN s
        ELSE SubSeq(s, 1, (CHOOSE k \in slashes : \A j \in slashes : k <= j) - 1)

\* C7: no store set is made at a location whose first segment is $user or
\* $lastError.
C7_NoStoreWriteUnderReserved ==
    \A k \in 1..Len(effects) :
        effects[k].kind = "set" =>
            FirstSegment(effects[k].location) \notin {USER, LAST_ERROR}

\* ------------------------------------------------------- claims: accessors
\* No leading slash, no trailing slash, no repeated slash.
Normalized(s) ==
    /\ s /= <<>> => (s[1] /= "/" /\ s[Len(s)] /= "/")
    /\ \A k \in 1..(Len(s) - 1) : ~(s[k] = "/" /\ s[k + 1] = "/")

\* C8: the path bound to every accessor child returned and the location
\* every get computed are normalized.
C8_PathsNormalized ==
    /\ \A k \in 1..Len(trail) : Normalized(trail[k].path)
    /\ lastGet.result.kind \in {"store", "special", "throw"} =>
          Normalized(lastGet.result.location)

\* C9: the accessor child(a).child(b) is bound to the path child(a + "/" + b)
\* of the same accessor is bound to.
C9_ChildComposes ==
    \A k \in 3..Len(trail) :
        trail[k].path =
            trimPath(Join(trail[k - 2].path, Join(trail[k - 1].arg, trail[k].arg)))

\* C18: when a ChangeOp throws, the forEach of its batch stops there: no later
\* ChangeOp of the batch reaches the callback or has an effect, and every
\* ChangeOp before it in the batch keeps its one effect.
C18_ThrowStopsBatch ==
    \A t \in 1..Len(thrown) :
        LET b == thrown[t].op[1]
            i == thrown[t].op[2]
        IN  /\ \A k \in 1..Len(visited) :
                  visited[k].op[1] = b => visited[k].op[2] <= i
            /\ \A j \in 1..Len(Batch(b)) :
                  /\ Cardinality(Of(effects, <<b, j>>)) = IF j < i THEN 1 ELSE 0
                  /\ Cardinality(Of(applied, <<b, j>>)) = IF j < i THEN 1 ELSE 0

\* A ChangeOp threw after an earlier ChangeOp of its batch was applied and
\* with a later one still to come, and the dispatcher code has unwound.
C18_Witness ==
    /\ stack = <<>>
    /\ \E t \in 1..Len(thrown) :
          /\ thrown[t].op[2] >= 2
          /\ thrown[t].op[2] < Len(Batch(thrown[t].op[1]))

\* C19: a subscriber of get("$lastError") receives the errors pushed while
\* its subscription is active, each once and in push order, and nothing
\* else: nothing on subscribing, nothing pushed before, nothing after it
\* disposed.
C19_Inv ==
    \A k \in DOMAIN errSubs :
        /\ errSubs[k].state = "new" => errSubs[k].received = <<>>
        /\ Len(errSubs[k].received) <= Len(errors)

C19_Step ==
    \A k \in DOMAIN errSubs :
        errSubs'[k].received =
            IF errSubs[k].state = "active"
            THEN errSubs[k].received \o SubSeq(errors', Len(errors) + 1, Len(errors'))
            ELSE errSubs[k].received

C19_NoReplay == []C19_Inv /\ [][C19_Step]_vars

\* Two errors were pushed, and a subscriber that has disposed received one
\* of them.
C19_Witness ==
    /\ Len(errors) = 2
    /\ \E k \in DOMAIN errSubs :
          errSubs[k].state = "disposed" /\ Len(errSubs[k].received) = 1

\* C12: child fails with InvalidArgument and creates no accessor for every
\* argument that is not a string, a missing argument included; for every
\* string, the empty one included, it returns a new accessor and does not
\* fail.
C12_ChildRequiresString ==
    [][lastCall'.op = "child" =>
          IF lastCall'.arg.type = "string"
          THEN /\ pathError' = "none"
               /\ Len(trail') = Len(trail) + 1
               /\ SubSeq(trail', 1, Len(trail)) = trail
               /\ trail'[Len(trail')].arg = lastCall'.arg.chars
          ELSE /\ pathError' = "InvalidArgument"
               /\ trail' = trail]_vars

\* child("") returned an accessor, and child() on it failed.
C12_Witness ==
    /\ Len(trail) >= 2
    /\ trail[Len(trail)].arg = <<>>
    /\ lastCall = [op |-> "child", arg |-> Undefined]
    /\ pathError = "InvalidArgument"

\* An accessor bound to the root path: the driver's accessor, or one reached
\* from it by child("") and child("/") only.
RootAccessor == \A k \in 2..Len(trail) : trail[k].arg \in {<<>>, <<"/">>}

StoreRoot == [handle |-> "root", childCalls |-> <<>>]

C11_Inv ==
    LET location == lastGet.result.location
    IN  (/\ lastCall.op = "get"
         /\ location /= <<>>
         /\ location[1] = "$"
         /\ FirstSegment(location) \notin {USER, LAST_ERROR}) =>
            /\ pathError = "UnknownReservedPath"
            /\ lastGet.result.kind = "throw"
            /\ lastGet.result.ref = NoRef

C11_Step ==
    (lastGet' /= lastGet /\ pathError' = "UnknownReservedPath") =>
        UNCHANGED <<bsubs, registry, storeCalls>>

C11_UnknownReservedNameThrows == []C11_Inv /\ [][C11_Step]_vars

\* get("$n") has thrown while a callback is registered on the store.
C11_Witness ==
    /\ lastGet.arg = NOPE
    /\ pathError = "UnknownReservedPath"
    /\ registry /= {}

\* The store calls made with the callback of subscription k.
CallsOf(k, apis) ==
    {i \in 1..Len(storeCalls) : storeCalls[i].cb = k /\ storeCalls[i].api \in apis}

OnStore(k) == bsubs[k].stream.stream \in {"value", "auth$"}

\* C13: every subscription to a store-backed stream registers one callback;
\* it takes back that callback, from the same target and event, exactly
\* once when it ends, by dispose or by the listener's error; once ended it
\* stays ended and makes no further call; no call is made with a callback
\* that is not a subscription's.
C13_Inv ==
    /\ \A i \in 1..Len(storeCalls) :
          storeCalls[i].cb \in DOMAIN bsubs /\ OnStore(storeCalls[i].cb)
    /\ \A k \in DOMAIN bsubs :
          OnStore(k) =>
            /\ Cardinality(CallsOf(k, {"on", "onAuth"})) = 1
            /\ Cardinality(CallsOf(k, {"off", "offAuth"})) =
                  IF bsubs[k].state = "active" THEN 0 ELSE 1
            /\ \A i \in CallsOf(k, {"on", "onAuth"}) :
               \A j \in CallsOf(k, {"off", "offAuth"}) :
                  /\ i < j
                  /\ storeCalls[j].target = storeCalls[i].target
                  /\ storeCalls[j].event = storeCalls[i].event
                  /\ storeCalls[j].api = IF storeCalls[i].api = "on" THEN "off" ELSE "offAuth"
            /\ (bsubs[k].state = "active") <=> (\E reg \in registry : reg.cb = k)

C13_Step ==
    \A k \in DOMAIN bsubs :
        bsubs[k].state /= "active" =>
            /\ bsubs'[k].state = bsubs[k].state
            /\ \A i \in (Len(storeCalls) + 1)..Len(storeCalls') : storeCalls'[i].cb /= k

C13_DeregistersOnce == []C13_Inv /\ [][C13_Step]_vars

\* One subscription ended by a listener error and one to auth$ ended by
\* dispose, each with its two calls.
C13_Witness ==
    /\ Len(storeCalls) = 4
    /\ \E j, k \in DOMAIN bsubs :
          /\ bsubs[j].state = "failed"
          /\ bsubs[k].state = "disposed"
          /\ bsubs[k].stream.stream = "auth$"

\* C14: a listener error ends the one subscription whose listener it is:
\* that one fails, receives nothing then or later and has no callback left
\* on the store; every other subscription, its callback, and the dispatcher
\* are as they were.
C14_Inv ==
    \A k \in DOMAIN bsubs :
        bsubs[k].state = "failed" =>
            /\ bsubs[k].failure /= "none"
            /\ ~ \E reg \in registry : reg.cb = k

C14_Step ==
    \A k \in DOMAIN bsubs :
        /\ bsubs[k].state = "failed" => bsubs'[k] = bsubs[k]
        /\ (bsubs[k].state = "active" /\ bsubs'[k].state = "failed") =>
              /\ bsubs'[k].received = bsubs[k].received
              /\ \A j \in DOMAIN bsubs \ {k} : bsubs'[j] = bsubs[j]
              /\ registry' = {reg \in registry : reg.cb /= k}
              /\ UNCHANGED <<subscribed, stack>>

C14_ListenerErrorIsLocal == []C14_Inv /\ [][C14_Step]_vars

\* The first of two subscriptions to one location failed before anything
\* was delivered to it; the second, made later, is active and has received
\* a value.
C14_Witness ==
    /\ Len(bsubs) = 2
    /\ bsubs[1].state = "failed"
    /\ bsubs[1].delivered = <<>>
    /\ bsubs[2].stream = bsubs[1].stream
    /\ bsubs[2].state = "active"
    /\ bsubs[2].received /= <<>>

\* C16: a subscriber of uid$ receives one value for every authentication
\* state its callback was called with, in that order: null for null, the
\* uid of the record otherwise; and the store calls all active subscribers
\* of auth$-backed streams alike.
C16_Inv ==
    \A k \in DOMAIN bsubs :
        bsubs[k].stream.kind = "uid" =>
            /\ Len(bsubs[k].received) = Len(bsubs[k].delivered)
            /\ \A i \in 1..Len(bsubs[k].received) :
                  bsubs[k].received[i] =
                      IF bsubs[k].delivered[i].value = JsNull
                      THEN JsNull
                      ELSE bsubs[k].delivered[i].value.fields[SegUid]

C16_Step ==
    \A j, k \in DOMAIN bsubs :
        (/\ bsubs[j].stream.stream = "auth$" /\ bsubs[j].state = "active"
         /\ bsubs[k].stream.stream = "auth$" /\ bsubs[k].state = "active") =>
            Len(bsubs'[j].delivered) - Len(bsubs[j].delivered) =
                Len(bsubs'[k].delivered) - Len(bsubs[k].delivered)

C16_UidPerAuthEvent == []C16_Inv /\ [][C16_Step]_vars

\* A subscriber of uid$ has received a uid and then null.
C16_Witness ==
    \E k \in DOMAIN bsubs :
        /\ bsubs[k].stream.kind = "uid"
        /\ bsubs[k].received = <<Prim("'u1'"), JsNull>>

\* C17: get, ref and reading uid$ register nothing on the store; a
\* subscription registers at most one callback; and the registrations made
\* less those taken back are as many as the active subscriptions to
\* store-backed streams.
C17_Inv ==
    LET active == {k \in DOMAIN bsubs : OnStore(k) /\ bsubs[k].state = "active"}
        made == {i \in 1..Len(storeCalls) : storeCalls[i].api \in {"on", "onAuth"}}
        takenBack == {i \in 1..Len(storeCalls) : storeCalls[i].api \in {"off", "offAuth"}}
    IN  /\ Cardinality(made) - Cardinality(takenBack) = Cardinality(active)
        /\ Cardinality(registry) = Cardinality(active)

C17_Step ==
    /\ (lastGet' /= lastGet \/ lastCall' /= lastCall) => UNCHANGED <<registry, storeCalls>>
    /\ Len(bsubs') = Len(bsubs) + 1 =>
          Len(storeCalls') = Len(storeCalls) +
              IF bsubs'[Len(bsubs')].stream.stream \in {"value", "auth$"} THEN 1 ELSE 0

C17_ListenersMatchSubscriptions == []C17_Inv /\ [][C17_Step]_vars

\* After one subscription ended and with another one active, ref() was
\* called.
C17_Witness ==
    /\ Cardinality(registry) = 1
    /\ Len(storeCalls) = 3
    /\ lastCall.op = "ref"

\* -------------------------------------------------------- claims: resolver
\* The nested field the claim describes: the value reached by walking the
\* segments, null when the value or a field on the way is missing.
RECURSIVE FieldAt(_, _)
FieldAt(parts, v) ==
    IF v = JsUndefined THEN JsNull
    ELSE IF parts = <<>> THEN v
    ELSE IF Head(parts) \in DOMAIN v.fields
         THEN FieldAt(Tail(parts), v.fields[Head(parts)])
         ELSE JsNull

\* The values stream has emitted since its n-th emission.
EmittedSince(stream, n) ==
    LET idx == SelectSeq([k \in 1..Len(emitted) |-> k],
                         LAMBDA k : k > n /\ emitted[k].stream = stream)
    IN  [j \in 1..Len(idx) |-> emitted[idx[j]].value]

\* C10: a subscriber of get(prefix/seg1/.../segk) has received, for every
\* value its prefix's stream emitted since it subscribed, exactly the nested
\* field of that value at seg1..segk, null when it is missing.
C10_ExtractsNestedField ==
    \A k \in 1..Len(rsubs) :
        LET values == EmittedSince(rsubs[k].stream, rsubs[k].since)
        IN  rsubs[k].received =
                [j \in 1..Len(values) |-> FieldAt(rsubs[k].parts, values[j])]

====
